---- MODULE Spec2Model ----
(***************************************************************************)
(* Model of the real-time messaging core of chat-backend-spark:            *)
(*   sockets/socketHandler.js   (src/unnamed/part_005, lines 65-430)       *)
(*   models/Conversation.js, models/Message.js (src/unnamed/part_002)      *)
(*   controllers/messageController.js                                      *)
(*   controllers/requestController.js, models/ChatRequest.js               *)
(*   server.js (src/unnamed/part_007, lines 1-203)                         *)
(*   controllers/conversationController.js (src/unnamed/part_007, 205-)    *)
(* Every handler is cut at its awaits: one action per stretch of code that *)
(* runs between two suspension points, the store call that ends the await  *)
(* taking effect in the step that resumes the handler.                     *)
(***************************************************************************)
EXTENDS Naturals, Sequences, FiniteSets, TLC

\* ---------------------------------------------------------------- bounds
MaxMessages == 2
MaxConversations == 2
MaxTasks == 2
MaxRequests == 2

\* ------------------------------------------------------------- universes
None == "none"
Users == {"u1", "u2", "u3"}
Sockets == {"s1", "s2", "s3"}

\* socket.userId, attached by the authentication middleware
SocketUser(s) == CASE s = "s1" -> "u1"
                   [] s = "s2" -> "u1"
                   [] s = "s3" -> "u2"

\* messageSchema.type enum
MessageTypes == {"text", "image", "gif", "sticker"}
\* messageSchema.status enum
Statuses == {"sent", "delivered", "read"}

\* what a client may put in the type field of send_message
TypeInputs == {"text", "bogus", None}
ContentInputs == {"hi", None}
\* the content deleteMessage leaves in a deleted message
DeletionMarker == "This message was deleted"

Tasks == 1..MaxTasks

VARIABLES
  connectedUsers,   \* the Map userId -> socketId
  sockets,          \* per socket: transport state and position of its handlers
  isOnline,         \* User.isOnline as persisted
  conversations,    \* the Conversation collection, _id = index
  messages,         \* the Message collection, _id = index
  tasks,            \* event handlers suspended at an await
  emits,            \* the events emitted by the last step
  chatRequests,     \* the ChatRequest collection, _id = index
  server            \* the process: "running", "closing" (server.close called), "exited"

vars == <<connectedUsers, sockets, isOnline, conversations, messages, tasks, emits,
          chatRequests, server>>

\* ------------------------------------------------------------ structures
NoTask == [kind |-> "none", pc |-> "none", socket |-> None, userId |-> None,
           receiverId |-> None, type |-> None, conversation |-> 0,
           currentUnread |-> 0, message |-> 0, request |-> 0, content |-> None]

\* an emitted event and the sockets that get it
Event(ev, to, userId, messageId, status, conversationId) ==
  [ev |-> ev, to |-> to, userId |-> userId, messageId |-> messageId,
   status |-> status, conversationId |-> conversationId]

\* io.to(socketId): the sockets in the room named by a socket id
Room(socketId) == {s \in Sockets : s = socketId /\ sockets[s].connected}

\* socket.broadcast: every connected socket but the emitting one
Broadcast(s) == {x \in Sockets : x # s /\ sockets[x].connected}

\* socket.emit: the emitting socket itself
Self(s) == Room(s)

FreeTasks == {t \in Tasks : tasks[t].kind = "none"}
\* the slot a new handler is suspended in
NewTask == CHOOSE t \in FreeTasks : \A x \in FreeTasks : t <= x

\* the process has not exited: its handlers still run
Alive == server # "exited"

\* the socket can take events: its listeners are attached and it is open
Ready(s) == sockets[s].connected /\ sockets[s].pc = "ready"

\* the documents of a collection that were not deleted; an _id is never reused
ConversationIds == {c \in 1..Len(conversations) : ~conversations[c].removed}
MessageIds == {m \in 1..Len(messages) : ~messages[m].removed}

\* ------------------------------------------------------------------ Init
Init ==
  /\ connectedUsers = [u \in Users |-> None]
  /\ sockets = [s \in Sockets |-> [connected |-> FALSE, pc |-> "idle"]]
  /\ isOnline = [u \in Users |-> FALSE]
  /\ conversations = <<>>
  /\ messages = <<>>
  /\ tasks = [t \in Tasks |-> NoTask]
  /\ emits = {}
  /\ chatRequests = <<>>
  /\ server = "running"

\* ------------------------------------------------- connection lifecycle
\* io.on('connection'), up to the await of User.findByIdAndUpdate
Connect(s) ==
  /\ server = "running"
  /\ sockets[s].pc = "idle"
  /\ ~sockets[s].connected
  /\ connectedUsers' = [connectedUsers EXCEPT ![SocketUser(s)] = s]
  /\ sockets' = [sockets EXCEPT ![s] = [connected |-> TRUE, pc |-> "await_online"]]
  /\ emits' = {}
  /\ UNCHANGED <<chatRequests, server, isOnline, conversations, messages, tasks>>

\* io.on('connection'), from the await on: the isOnline write, the user_online
\* broadcast, and the registration of the socket's listeners
ConnectResume(s) ==
  /\ Alive
  /\ sockets[s].pc = "await_online"
  /\ isOnline' = [isOnline EXCEPT ![SocketUser(s)] = TRUE]
  /\ emits' = {Event("user_online", Broadcast(s), SocketUser(s), 0, None, 0)}
  /\ sockets' = [sockets EXCEPT ![s].pc = "ready"]
  /\ UNCHANGED <<chatRequests, server, connectedUsers, conversations, messages, tasks>>

\* the transport closes; the 'disconnect' listener runs only if it is attached
DisconnectRegistry(s) ==
  IF sockets[s].pc = "ready"
    THEN [connectedUsers EXCEPT ![SocketUser(s)] = None]
    ELSE connectedUsers

Disconnect(s) ==
  /\ Alive
  /\ sockets[s].connected
  /\ connectedUsers' = DisconnectRegistry(s)
  /\ sockets' = [sockets EXCEPT ![s] =
                   [connected |-> FALSE,
                    pc |-> IF sockets[s].pc = "ready" THEN "await_offline"
                                                      ELSE sockets[s].pc]]
  /\ emits' = {}
  /\ UNCHANGED <<chatRequests, server, isOnline, conversations, messages, tasks>>

\* the disconnect listener from its await on
DisconnectResume(s) ==
  /\ Alive
  /\ sockets[s].pc = "await_offline"
  /\ isOnline' = [isOnline EXCEPT ![SocketUser(s)] = FALSE]
  /\ emits' = {Event("user_offline", Broadcast(s), SocketUser(s), 0, None, 0)}
  /\ sockets' = [sockets EXCEPT ![s].pc = "done"]
  /\ UNCHANGED <<chatRequests, server, connectedUsers, conversations, messages, tasks>>

\* ------------------------------------------------------------ handshake
\* socket.handshake.auth.token: absent, or a token carrying a user id whose
\* signature is valid, invalid or expired; "ghost" is the id of no user
UserIds == Users \cup {"ghost"}
NoToken == [id |-> None, sig |-> "absent"]
TokenInputs == {NoToken} \cup [id : UserIds, sig : {"valid", "invalid", "expired"}]

\* verifyToken(token): the decoded id, or None where it throws
VerifyToken(token) == IF token.sig = "valid" THEN token.id ELSE None

\* io.use(...): the user id attached to the socket, or None where the
\* middleware calls next(new Error(...))
Authenticate(token) ==
  IF token.sig = "absent"
    THEN None                                  \* No token provided
    ELSE LET decoded == VerifyToken(token)
         IN  IF decoded = None
               THEN None                       \* catch: Invalid token
               ELSE IF decoded \notin Users
                      THEN None                \* User not found
                      ELSE decoded

\* a handshake that skips the middleware
HandshakeUnchecked(s, token) == Connect(s)

\* a client opens a connection: the middleware, then io.on('connection') up to
\* its await; a refused handshake never reaches the connection handler
Handshake(s, token) ==
  IF Authenticate(token) = None
    THEN /\ server = "running"
         /\ sockets[s].pc = "idle"
         /\ ~sockets[s].connected
         /\ sockets' = [sockets EXCEPT ![s].pc = "refused"]
         /\ emits' = {}
         /\ UNCHANGED <<chatRequests, server, connectedUsers, isOnline,
                        conversations, messages, tasks>>
    ELSE /\ Authenticate(token) = SocketUser(s)
         /\ Connect(s)

\* process.on('unhandledRejection'): server.close() stops the listening
Closing == IF server = "running" THEN "closing" ELSE server

\* io.on('connection') when the awaited User.findByIdAndUpdate rejects: the
\* handler has no try/catch, so nothing after the await runs (no broadcast, no
\* listener is attached) and the rejection reaches the process
ConnectResumeFails(s) ==
  /\ Alive
  /\ sockets[s].pc = "await_online"
  /\ sockets' = [sockets EXCEPT ![s].pc = "failed"]
  /\ server' = Closing
  /\ emits' = {}
  /\ UNCHANGED <<chatRequests, connectedUsers, isOnline, conversations, messages, tasks>>

\* the disconnect listener when its awaited User.findByIdAndUpdate rejects
DisconnectResumeFails(s) ==
  /\ Alive
  /\ sockets[s].pc = "await_offline"
  /\ sockets' = [sockets EXCEPT ![s].pc = "done"]
  /\ server' = Closing
  /\ emits' = {}
  /\ UNCHANGED <<chatRequests, connectedUsers, isOnline, conversations, messages, tasks>>

\* the callback of server.close(): once the last connection has ended the
\* process exits
ServerExit ==
  /\ server = "closing"
  /\ \A s \in Sockets : ~sockets[s].connected
  /\ server' = "exited"
  /\ emits' = {}
  /\ UNCHANGED <<chatRequests, connectedUsers, sockets, isOnline, conversations, messages, tasks>>

\* ---------------------------------------------------------- send_message
\* handlers that still have a Message / a Conversation to create
PendingMessages ==
  Cardinality({t \in Tasks : tasks[t].kind = "send" /\
                             tasks[t].pc \in {"createConversation", "createMessage"}})
PendingConversations ==
  Cardinality({t \in Tasks : \/ tasks[t].kind = "send" /\ tasks[t].pc = "createConversation"
                             \/ tasks[t].kind = "accept"})

\* Conversation.findOne({participants: {$all: [senderId, receiverId]}})
FindOne(senderId, receiverId) ==
  {c \in ConversationIds :
     LET p == conversations[c].participants
     IN  /\ senderId \in {p[1], p[2]}
         /\ receiverId \in {p[1], p[2]}}

\* the catch block of send_message
MessageError(s) == {Event("message_error", Self(s), None, 0, None, 0)}

\* socket.on('send_message'): validation, then the conversation lookup
SendMessage(s, receiverId, type, content, conversationId) ==
  /\ Alive
  /\ Ready(s)
  /\ FreeTasks # {}
  /\ Len(messages) + PendingMessages < MaxMessages
  /\ Len(conversations) + PendingConversations < MaxConversations
  /\ LET userId == SocketUser(s)
         start == [NoTask EXCEPT !.kind = "send", !.socket = s, !.userId = userId,
                                 !.receiverId = receiverId, !.type = type,
                                 !.content = content]
     IN
     IF receiverId = None \/ type = None \/ content = None
       THEN \* Missing required fields
            /\ emits' = MessageError(s)
            /\ UNCHANGED tasks
       ELSE IF conversationId # 0
         THEN \* Conversation.findById(conversationId)
              IF conversationId \in ConversationIds
                THEN /\ tasks' = [tasks EXCEPT ![NewTask] =
                          [start EXCEPT !.pc = "createMessage",
                                        !.conversation = conversationId,
                                        !.currentUnread =
                                          conversations[conversationId].unreadCount[receiverId]]]
                     /\ emits' = {}
                ELSE \* conversation is null: conversation._id throws
                     /\ emits' = MessageError(s)
                     /\ UNCHANGED tasks
         ELSE IF FindOne(userId, receiverId) # {}
           THEN \E c \in FindOne(userId, receiverId) :
                  /\ tasks' = [tasks EXCEPT ![NewTask] =
                       [start EXCEPT !.pc = "createMessage", !.conversation = c,
                                     !.currentUnread = conversations[c].unreadCount[receiverId]]]
                  /\ emits' = {}
           ELSE /\ tasks' = [tasks EXCEPT ![NewTask] =
                       [start EXCEPT !.pc = "createConversation"]]
                /\ emits' = {}
  /\ UNCHANGED <<chatRequests, server, connectedUsers, sockets, isOnline, conversations, messages>>

\* Conversation.create({participants: [senderId, receiverId]})
SendCreateConversation(t) ==
  /\ Alive
  /\ tasks[t].kind = "send"
  /\ tasks[t].pc = "createConversation"
  /\ conversations' = Append(conversations,
        [participants |-> <<tasks[t].userId, tasks[t].receiverId>>,
         lastMessage |-> 0,
         unreadCount |-> [u \in Users |-> 0],
         removed |-> FALSE])
  /\ tasks' = [tasks EXCEPT ![t].pc = "createMessage",
                            ![t].conversation = Len(conversations) + 1,
                            ![t].currentUnread = 0]
  /\ emits' = {}
  /\ UNCHANGED <<chatRequests, server, connectedUsers, sockets, isOnline, messages>>

\* Message.create({... status: 'sent'}); the schema rejects a type outside the enum
SendCreateMessage(t) ==
  /\ Alive
  /\ tasks[t].kind = "send"
  /\ tasks[t].pc = "createMessage"
  /\ IF tasks[t].type \in MessageTypes
       THEN /\ messages' = Append(messages,
                 [conversationId |-> tasks[t].conversation,
                  sender |-> tasks[t].userId,
                  receiver |-> tasks[t].receiverId,
                  type |-> tasks[t].type,
                  content |-> tasks[t].content,
                  status |-> "sent",
                  isDeleted |-> FALSE,
                  deletedAt |-> None,
                  createdAt |-> Len(messages) + 1,
                  removed |-> FALSE])
            /\ tasks' = [tasks EXCEPT ![t].pc = "saveConversation",
                                      ![t].message = Len(messages) + 1]
            /\ emits' = {}
       ELSE /\ emits' = MessageError(tasks[t].socket)
            /\ tasks' = [tasks EXCEPT ![t] = NoTask]
            /\ UNCHANGED messages
  /\ UNCHANGED <<chatRequests, server, connectedUsers, sockets, isOnline, conversations>>

\* connectedUsers.get(receiverId)
ReceiverSocketId(receiverId) == connectedUsers[receiverId]

\* conversation.save(), then the receiver lookup: receive_message and the
\* start of message.save(), or message_sent
SendSaveConversation(t) ==
  /\ Alive
  /\ tasks[t].kind = "send"
  /\ tasks[t].pc = "saveConversation"
  /\ conversations' =
       IF tasks[t].conversation \in ConversationIds
         THEN [conversations EXCEPT
                 ![tasks[t].conversation].lastMessage = tasks[t].message,
                 ![tasks[t].conversation].unreadCount[tasks[t].receiverId] =
                     tasks[t].currentUnread + 1]
         ELSE conversations                   \* the update matches no document
  /\ IF ReceiverSocketId(tasks[t].receiverId) # None
       THEN /\ emits' = {Event("receive_message",
                               Room(ReceiverSocketId(tasks[t].receiverId)),
                               tasks[t].userId, tasks[t].message, "sent",
                               tasks[t].conversation)}
            /\ tasks' = [tasks EXCEPT ![t].pc = "saveMessage"]
       ELSE /\ emits' = {Event("message_sent", Self(tasks[t].socket),
                               tasks[t].userId, tasks[t].message, "sent",
                               tasks[t].conversation)}
            /\ tasks' = [tasks EXCEPT ![t] = NoTask]
  /\ UNCHANGED <<chatRequests, server, connectedUsers, sockets, isOnline, messages>>

\* message.save() with status 'delivered', then message_sent
SendSaveMessage(t) ==
  /\ Alive
  /\ tasks[t].kind = "send"
  /\ tasks[t].pc = "saveMessage"
  /\ messages' =
       IF tasks[t].message \in MessageIds
         THEN [messages EXCEPT ![tasks[t].message].status = "delivered"]
         ELSE messages                        \* the update matches no document
  /\ emits' = {Event("message_sent", Self(tasks[t].socket), tasks[t].userId,
                     tasks[t].message, "delivered", tasks[t].conversation)}
  /\ tasks' = [tasks EXCEPT ![t] = NoTask]
  /\ UNCHANGED <<chatRequests, server, connectedUsers, sockets, isOnline, conversations>>

\* conversation.save() rejects: the catch block runs after the Message was
\* created
SendSaveConversationFails(t) ==
  /\ Alive
  /\ tasks[t].kind = "send"
  /\ tasks[t].pc = "saveConversation"
  /\ emits' = MessageError(tasks[t].socket)
  /\ tasks' = [tasks EXCEPT ![t] = NoTask]
  /\ UNCHANGED <<chatRequests, server, connectedUsers, sockets, isOnline,
                 conversations, messages>>

\* message.save() rejects: the catch block runs after receive_message was
\* emitted
SendSaveMessageFails(t) ==
  /\ Alive
  /\ tasks[t].kind = "send"
  /\ tasks[t].pc = "saveMessage"
  /\ emits' = MessageError(tasks[t].socket)
  /\ tasks' = [tasks EXCEPT ![t] = NoTask]
  /\ UNCHANGED <<chatRequests, server, connectedUsers, sockets, isOnline,
                 conversations, messages>>

\* ------------------------------------------------- status-update events
\* Message.findByIdAndUpdate(messageId, {status}): the collection afterwards
FindByIdAndUpdate(messageId, status) ==
  IF messageId \in MessageIds
    THEN [messages EXCEPT ![messageId].status = status]
    ELSE messages

\* the message_status_updated push to the sender of the message, if registered
StatusUpdated(messageId, status) ==
  IF messageId \in MessageIds /\ connectedUsers[messages[messageId].sender] # None
    THEN {Event("message_status_updated",
                Room(connectedUsers[messages[messageId].sender]),
                None, messageId, status, 0)}
    ELSE {}

\* socket.on('message_delivered')
MessageDelivered(s, messageId) ==
  /\ Alive
  /\ Ready(s)
  /\ messages' = FindByIdAndUpdate(messageId, "delivered")
  /\ emits' = StatusUpdated(messageId, "delivered")
  /\ UNCHANGED <<chatRequests, server, connectedUsers, sockets, isOnline, conversations, tasks>>

\* an updateMany whose filter leaves out the receiver
UpdateManyAnyReceiver(conversationId, receiver, from, to) ==
  [m \in 1..Len(messages) |->
     IF /\ m \in MessageIds
        /\ messages[m].conversationId = conversationId
        /\ messages[m].status \in from
       THEN [messages[m] EXCEPT !.status = to]
       ELSE messages[m]]

\* Message.updateMany({conversationId, receiver, status: {$in: from}}, {status: to})
UpdateMany(conversationId, receiver, from, to) ==
  [m \in 1..Len(messages) |->
     IF /\ m \in MessageIds
        /\ messages[m].conversationId = conversationId
        /\ messages[m].receiver = receiver
        /\ messages[m].status \in from
       THEN [messages[m] EXCEPT !.status = to]
       ELSE messages[m]]

\* socket.on('message_read'): the messageId form, or the conversationId form
\* up to its second await
MessageRead(s, messageId, conversationId) ==
  /\ Alive
  /\ Ready(s)
  /\ IF messageId # 0
       THEN /\ messages' = FindByIdAndUpdate(messageId, "read")
            /\ emits' = StatusUpdated(messageId, "read")
            /\ UNCHANGED tasks
       ELSE IF conversationId # 0
         THEN /\ FreeTasks # {}
              /\ messages' = UpdateMany(conversationId, SocketUser(s),
                                        {"sent", "delivered"}, "read")
              /\ tasks' = [tasks EXCEPT ![NewTask] =
                    [NoTask EXCEPT !.kind = "read", !.pc = "notify", !.socket = s,
                                   !.userId = SocketUser(s),
                                   !.conversation = conversationId]]
              /\ emits' = {}
         ELSE /\ emits' = {}
              /\ UNCHANGED <<messages, tasks>>
  /\ UNCHANGED <<chatRequests, server, connectedUsers, sockets, isOnline, conversations>>

\* message_read, conversationId form: Message.find and the messages_read pushes
MessageReadNotify(t) ==
  /\ Alive
  /\ tasks[t].kind = "read"
  /\ tasks[t].pc = "notify"
  /\ emits' = {Event("messages_read", Room(connectedUsers[messages[m].sender]),
                     tasks[t].userId, 0, None, tasks[t].conversation) :
                 m \in {x \in MessageIds :
                          /\ messages[x].conversationId = tasks[t].conversation
                          /\ messages[x].receiver = tasks[t].userId
                          /\ connectedUsers[messages[x].sender] # None}}
  /\ tasks' = [tasks EXCEPT ![t] = NoTask]
  /\ UNCHANGED <<chatRequests, server, connectedUsers, sockets, isOnline, conversations, messages>>

\* ------------------------------------------------------ HTTP controllers
IsParticipant(userId, conversationId) ==
  /\ conversationId \in ConversationIds
  /\ userId \in {conversations[conversationId].participants[1],
                 conversations[conversationId].participants[2]}

\* GET /api/messages/:conversationId
GetMessages(userId, conversationId) ==
  /\ Alive
  /\ messages' = IF IsParticipant(userId, conversationId)
                   THEN UpdateMany(conversationId, userId, {"sent"}, "delivered")
                   ELSE messages
  /\ emits' = {}
  /\ UNCHANGED <<chatRequests, server, connectedUsers, sockets, isOnline, conversations, tasks>>

\* PUT /api/messages/:conversationId/read, up to conversation.save()
MarkMessagesAsRead(userId, conversationId) ==
  /\ Alive
  /\ FreeTasks # {}
  /\ IF IsParticipant(userId, conversationId)
       THEN /\ messages' = UpdateMany(conversationId, userId,
                                      {"sent", "delivered"}, "read")
            /\ tasks' = [tasks EXCEPT ![NewTask] =
                  [NoTask EXCEPT !.kind = "markRead", !.pc = "save",
                                 !.userId = userId, !.conversation = conversationId]]
       ELSE UNCHANGED <<messages, tasks>>
  /\ emits' = {}
  /\ UNCHANGED <<chatRequests, server, connectedUsers, sockets, isOnline, conversations>>

\* markMessagesAsRead: conversation.unreadCount.set(userId, 0); conversation.save()
MarkMessagesAsReadSave(t) ==
  /\ Alive
  /\ tasks[t].kind = "markRead"
  /\ tasks[t].pc = "save"
  /\ conversations' =
       IF tasks[t].conversation \in ConversationIds
         THEN [conversations EXCEPT
                 ![tasks[t].conversation].unreadCount[tasks[t].userId] = 0]
         ELSE conversations                   \* the update matches no document
  /\ tasks' = [tasks EXCEPT ![t] = NoTask]
  /\ emits' = {}
  /\ UNCHANGED <<chatRequests, server, connectedUsers, sockets, isOnline, messages>>

\* --------------------------------------------------------- deleteMessage
\* deleteMessage's checks: the message exists and the caller is its sender
MayDeleteAnyone(userId, messageId) == messageId \in MessageIds

MayDelete(userId, messageId) ==
  /\ messageId \in MessageIds
  /\ messages[messageId].sender = userId

\* DELETE /api/messages/:messageId: Message.findById and the checks
DeleteMessage(userId, messageId) ==
  /\ Alive
  /\ FreeTasks # {}
  /\ IF MayDelete(userId, messageId)
       THEN tasks' = [tasks EXCEPT ![NewTask] =
               [NoTask EXCEPT !.kind = "delete", !.pc = "save", !.userId = userId,
                              !.message = messageId]]
       ELSE UNCHANGED tasks                   \* 404, 403
  /\ emits' = {}
  /\ UNCHANGED <<chatRequests, server, connectedUsers, sockets, isOnline,
                 conversations, messages>>

\* deleteMessage: message.save() writes the three paths the handler modified
DeleteMessageSave(t) ==
  /\ Alive
  /\ tasks[t].kind = "delete"
  /\ tasks[t].pc = "save"
  /\ messages' =
       IF tasks[t].message \in MessageIds
         THEN [messages EXCEPT ![tasks[t].message].isDeleted = TRUE,
                               ![tasks[t].message].deletedAt = "now",
                               ![tasks[t].message].content = DeletionMarker]
         ELSE messages                        \* the update matches no document
  /\ tasks' = [tasks EXCEPT ![t] = NoTask]
  /\ emits' = {}
  /\ UNCHANGED <<chatRequests, server, connectedUsers, sockets, isOnline, conversations>>

\* ---------------------------------------------------- deleteConversation
\* DELETE /api/conversations/:conversationId: Conversation.findById and the
\* participant check
DeleteConversation(userId, conversationId) ==
  /\ Alive
  /\ FreeTasks # {}
  /\ IF IsParticipant(userId, conversationId)
       THEN tasks' = [tasks EXCEPT ![NewTask] =
               [NoTask EXCEPT !.kind = "deleteConversation", !.pc = "deleteMany",
                              !.userId = userId, !.conversation = conversationId]]
       ELSE UNCHANGED tasks                   \* 404, 403
  /\ emits' = {}
  /\ UNCHANGED <<chatRequests, server, connectedUsers, sockets, isOnline,
                 conversations, messages>>

\* Message.deleteMany({conversationId}): the collection afterwards
DeleteMany(conversationId) ==
  [m \in 1..Len(messages) |->
     IF messages[m].conversationId = conversationId
       THEN [messages[m] EXCEPT !.removed = TRUE]
       ELSE messages[m]]

\* deleteConversation: await Message.deleteMany({conversationId})
DeleteConversationMessages(t) ==
  /\ Alive
  /\ tasks[t].kind = "deleteConversation"
  /\ tasks[t].pc = "deleteMany"
  /\ messages' = DeleteMany(tasks[t].conversation)
  /\ tasks' = [tasks EXCEPT ![t].pc = "findByIdAndDelete"]
  /\ emits' = {}
  /\ UNCHANGED <<chatRequests, server, connectedUsers, sockets, isOnline, conversations>>

\* deleteConversation: await Conversation.findByIdAndDelete(conversationId)
DeleteConversationDocument(t) ==
  /\ Alive
  /\ tasks[t].kind = "deleteConversation"
  /\ tasks[t].pc = "findByIdAndDelete"
  /\ conversations' = [conversations EXCEPT ![tasks[t].conversation].removed = TRUE]
  /\ tasks' = [tasks EXCEPT ![t] = NoTask]
  /\ emits' = {}
  /\ UNCHANGED <<chatRequests, server, connectedUsers, sockets, isOnline, messages>>

\* ------------------------------------------------------ typing indicators
\* the user_typing payload {userId, conversationId, isTyping} and its room
TypingEvent(to, userId, conversationId, isTyping) ==
  [ev |-> "user_typing", to |-> to, userId |-> userId, messageId |-> 0,
   status |-> None, conversationId |-> conversationId, isTyping |-> isTyping]

\* connectedUsers.get(receiverId) for whatever the client put in receiverId
TypingSocketId(receiverId) ==
  IF receiverId \in Users THEN connectedUsers[receiverId] ELSE None

\* the typing indicator emitted to every connected socket but the sender's
UserTypingBroadcast(s, receiverId, conversationId, isTyping) ==
  {TypingEvent(Broadcast(s), SocketUser(s), conversationId, isTyping)}

\* if (receiverSocketId) io.to(receiverSocketId).emit('user_typing', ...)
UserTyping(s, receiverId, conversationId, isTyping) ==
  IF TypingSocketId(receiverId) # None
    THEN {TypingEvent(Room(TypingSocketId(receiverId)), SocketUser(s),
                      conversationId, isTyping)}
    ELSE {}

\* socket.on('typing')
Typing(s, receiverId, conversationId) ==
  /\ Alive
  /\ Ready(s)
  /\ emits' = UserTyping(s, receiverId, conversationId, TRUE)
  /\ UNCHANGED <<chatRequests, server, connectedUsers, sockets, isOnline,
                 conversations, messages, tasks>>

\* socket.on('stop_typing')
StopTyping(s, receiverId, conversationId) ==
  /\ Alive
  /\ Ready(s)
  /\ emits' = UserTyping(s, receiverId, conversationId, FALSE)
  /\ UNCHANGED <<chatRequests, server, connectedUsers, sockets, isOnline,
                 conversations, messages, tasks>>

\* ---------------------------------------------------------- chat requests
RequestIds == 1..Len(chatRequests)

\* handlers that still have a ChatRequest to create
PendingRequests ==
  Cardinality({t \in Tasks : tasks[t].kind = "request" /\ tasks[t].pc = "create"})

\* ChatRequest.findOne({$or: [{sender, receiver}, {sender: receiver, receiver: sender}]})
FindRequest(senderId, receiverId) ==
  {r \in RequestIds :
     \/ chatRequests[r].sender = senderId /\ chatRequests[r].receiver = receiverId
     \/ chatRequests[r].sender = receiverId /\ chatRequests[r].receiver = senderId}

\* the unique index {sender: 1, receiver: 1}: the documents other than
\* request that hold the ordered pair
SameOrderedPair(senderId, receiverId, request) ==
  {r \in RequestIds \ {request} :
     chatRequests[r].sender = senderId /\ chatRequests[r].receiver = receiverId}

\* POST /api/requests: the checks and the lookup of an existing request
SendChatRequest(senderId, receiverId) ==
  /\ Alive
  /\ FreeTasks # {}
  /\ Len(chatRequests) + PendingRequests < MaxRequests
  /\ LET existing == FindRequest(senderId, receiverId)
         start == [NoTask EXCEPT !.kind = "request", !.userId = senderId,
                                 !.receiverId = receiverId]
     IN
     IF senderId = receiverId \/ receiverId \notin Users
       THEN UNCHANGED tasks                   \* 400, 404
       ELSE IF existing = {}
         THEN tasks' = [tasks EXCEPT ![NewTask] = [start EXCEPT !.pc = "create"]]
         ELSE LET r == CHOOSE x \in existing : \A y \in existing : x <= y
              IN  IF chatRequests[r].status = "rejected"
                    THEN tasks' = [tasks EXCEPT ![NewTask] =
                                     [start EXCEPT !.pc = "resave", !.request = r]]
                    ELSE UNCHANGED tasks      \* 400: pending or accepted
  /\ emits' = {}
  /\ UNCHANGED <<chatRequests, server, connectedUsers, sockets, isOnline,
                 conversations, messages>>

\* sendChatRequest: ChatRequest.create({sender, receiver}); a duplicate key of
\* the unique index rejects it
SendChatRequestCreate(t) ==
  /\ Alive
  /\ tasks[t].kind = "request"
  /\ tasks[t].pc = "create"
  /\ chatRequests' =
       IF SameOrderedPair(tasks[t].userId, tasks[t].receiverId, 0) = {}
         THEN Append(chatRequests, [sender |-> tasks[t].userId,
                                    receiver |-> tasks[t].receiverId,
                                    status |-> "pending"])
         ELSE chatRequests
  /\ tasks' = [tasks EXCEPT ![t] = NoTask]
  /\ emits' = {}
  /\ UNCHANGED <<server, connectedUsers, sockets, isOnline, conversations, messages>>

\* sendChatRequest after a rejection: existingRequest.save() with status
\* 'pending' and the new sender and receiver
SendChatRequestResave(t) ==
  /\ Alive
  /\ tasks[t].kind = "request"
  /\ tasks[t].pc = "resave"
  /\ chatRequests' =
       IF SameOrderedPair(tasks[t].userId, tasks[t].receiverId, tasks[t].request) = {}
         THEN [chatRequests EXCEPT ![tasks[t].request] =
                 [sender |-> tasks[t].userId, receiver |-> tasks[t].receiverId,
                  status |-> "pending"]]
         ELSE chatRequests
  /\ tasks' = [tasks EXCEPT ![t] = NoTask]
  /\ emits' = {}
  /\ UNCHANGED <<server, connectedUsers, sockets, isOnline, conversations, messages>>

\* the checks shared by acceptRequest and rejectRequest: the request exists,
\* the caller is its receiver, its status is pending
MayProcess(userId, requestId) ==
  /\ requestId \in RequestIds
  /\ chatRequests[requestId].receiver = userId
  /\ chatRequests[requestId].status = "pending"

\* PUT /api/requests/:requestId/accept: ChatRequest.findById and the checks
AcceptRequest(userId, requestId) ==
  /\ Alive
  /\ FreeTasks # {}
  /\ Len(conversations) + PendingConversations < MaxConversations
  /\ IF MayProcess(userId, requestId)
       THEN tasks' = [tasks EXCEPT ![NewTask] =
               [NoTask EXCEPT !.kind = "accept", !.pc = "save",
                              !.userId = chatRequests[requestId].sender,
                              !.receiverId = chatRequests[requestId].receiver,
                              !.request = requestId]]
       ELSE UNCHANGED tasks                   \* 404, 403, 400
  /\ emits' = {}
  /\ UNCHANGED <<chatRequests, server, connectedUsers, sockets, isOnline,
                 conversations, messages>>

\* acceptRequest: chatRequest.status = 'accepted'; chatRequest.save()
AcceptRequestSave(t) ==
  /\ Alive
  /\ tasks[t].kind = "accept"
  /\ tasks[t].pc = "save"
  /\ chatRequests' = [chatRequests EXCEPT ![tasks[t].request].status = "accepted"]
  /\ tasks' = [tasks EXCEPT ![t].pc = "createConversation"]
  /\ emits' = {}
  /\ UNCHANGED <<server, connectedUsers, sockets, isOnline, conversations, messages>>

\* acceptRequest: Conversation.create({participants: [sender, receiver]}),
\* without a lookup of an existing conversation
AcceptRequestCreate(t) ==
  /\ Alive
  /\ tasks[t].kind = "accept"
  /\ tasks[t].pc = "createConversation"
  /\ conversations' = Append(conversations,
        [participants |-> <<tasks[t].userId, tasks[t].receiverId>>,
         lastMessage |-> 0,
         unreadCount |-> [u \in Users |-> 0],
         removed |-> FALSE])
  /\ tasks' = [tasks EXCEPT ![t] = NoTask]
  /\ emits' = {}
  /\ UNCHANGED <<chatRequests, server, connectedUsers, sockets, isOnline, messages>>

\* PUT /api/requests/:requestId/reject: ChatRequest.findById and the checks
RejectRequest(userId, requestId) ==
  /\ Alive
  /\ FreeTasks # {}
  /\ IF MayProcess(userId, requestId)
       THEN tasks' = [tasks EXCEPT ![NewTask] =
               [NoTask EXCEPT !.kind = "reject", !.pc = "save", !.userId = userId,
                              !.request = requestId]]
       ELSE UNCHANGED tasks                   \* 404, 403, 400
  /\ emits' = {}
  /\ UNCHANGED <<chatRequests, server, connectedUsers, sockets, isOnline,
                 conversations, messages>>

\* rejectRequest: chatRequest.status = 'rejected'; chatRequest.save()
RejectRequestSave(t) ==
  /\ Alive
  /\ tasks[t].kind = "reject"
  /\ tasks[t].pc = "save"
  /\ chatRequests' = [chatRequests EXCEPT ![tasks[t].request].status = "rejected"]
  /\ tasks' = [tasks EXCEPT ![t] = NoTask]
  /\ emits' = {}
  /\ UNCHANGED <<server, connectedUsers, sockets, isOnline, conversations, messages>>

\* ------------------------------------------------------- specifications
\* the whole program: every handler, every input
Next ==
  \/ \E s \in Sockets : Connect(s)
  \/ \E s \in Sockets : ConnectResume(s)
  \/ \E s \in Sockets : Disconnect(s)
  \/ \E s \in Sockets : DisconnectResume(s)
  \/ \E s \in Sockets, r \in Users \cup {None}, ty \in TypeInputs,
        co \in ContentInputs, c \in 0..MaxConversations :
        SendMessage(s, r, ty, co, c)
  \/ \E t \in Tasks : SendCreateConversation(t)
  \/ \E t \in Tasks : SendCreateMessage(t)
  \/ \E t \in Tasks : SendSaveConversation(t)
  \/ \E t \in Tasks : SendSaveMessage(t)
  \/ \E s \in Sockets, m \in 0..MaxMessages : MessageDelivered(s, m)
  \/ \E s \in Sockets, m \in 0..MaxMessages, c \in 0..MaxConversations :
        MessageRead(s, m, c)
  \/ \E t \in Tasks : MessageReadNotify(t)
  \/ \E u \in Users, c \in 1..MaxConversations : GetMessages(u, c)
  \/ \E u \in Users, c \in 1..MaxConversations : MarkMessagesAsRead(u, c)
  \/ \E t \in Tasks : MarkMessagesAsReadSave(t)
  \/ \E s \in Sockets, token \in TokenInputs : Handshake(s, token)
  \/ \E s \in Sockets : ConnectResumeFails(s)
  \/ \E s \in Sockets : DisconnectResumeFails(s)
  \/ ServerExit
  \/ \E t \in Tasks : SendSaveConversationFails(t)
  \/ \E t \in Tasks : SendSaveMessageFails(t)
  \/ \E s \in Sockets, r \in Users \cup {None}, c \in 0..MaxConversations :
        Typing(s, r, c)
  \/ \E s \in Sockets, r \in Users \cup {None}, c \in 0..MaxConversations :
        StopTyping(s, r, c)
  \/ \E u \in Users, m \in 1..MaxMessages : DeleteMessage(u, m)
  \/ \E t \in Tasks : DeleteMessageSave(t)
  \/ \E u \in Users, c \in 1..MaxConversations : DeleteConversation(u, c)
  \/ \E t \in Tasks : DeleteConversationMessages(t)
  \/ \E t \in Tasks : DeleteConversationDocument(t)
  \/ \E u \in Users, v \in Users : SendChatRequest(u, v)
  \/ \E t \in Tasks : SendChatRequestCreate(t)
  \/ \E t \in Tasks : SendChatRequestResave(t)
  \/ \E u \in Users, r \in 1..MaxRequests : AcceptRequest(u, r)
  \/ \E t \in Tasks : AcceptRequestSave(t)
  \/ \E t \in Tasks : AcceptRequestCreate(t)
  \/ \E u \in Users, r \in 1..MaxRequests : RejectRequest(u, r)
  \/ \E t \in Tasks : RejectRequestSave(t)

Spec == Init /\ [][Next]_vars

\* connections only: every socket connects and disconnects, nothing is sent
NextPresence ==
  \/ \E s \in Sockets : Connect(s)
  \/ \E s \in Sockets : ConnectResume(s)
  \/ \E s \in Sockets : Disconnect(s)
  \/ \E s \in Sockets : DisconnectResume(s)

SpecPresence == Init /\ [][NextPresence]_vars

\* one session per user (s1 of u1, s3 of u2), send_message with every receiver
\* and every conversationId
OneSessionEach == {"s1", "s3"}

NextSend ==
  \/ \E s \in OneSessionEach : Connect(s)
  \/ \E s \in OneSessionEach : ConnectResume(s)
  \/ \E s \in OneSessionEach : Disconnect(s)
  \/ \E s \in OneSessionEach : DisconnectResume(s)
  \/ \E s \in OneSessionEach, r \in Users \cup {None}, co \in ContentInputs,
        c \in 0..MaxConversations :
        SendMessage(s, r, "text", co, c)
  \/ \E t \in Tasks : SendCreateConversation(t)
  \/ \E t \in Tasks : SendCreateMessage(t)
  \/ \E t \in Tasks : SendSaveConversation(t)
  \/ \E t \in Tasks : SendSaveMessage(t)

SpecSend == Init /\ [][NextSend]_vars

\* two sessions of u1 and one of u2, u2 sending to u1
NextMultiSession ==
  \/ \E s \in Sockets : Connect(s)
  \/ \E s \in Sockets : ConnectResume(s)
  \/ \E s \in Sockets : Disconnect(s)
  \/ \E s \in Sockets : DisconnectResume(s)
  \/ SendMessage("s3", "u1", "text", "hi", 0)
  \/ \E t \in Tasks : SendCreateConversation(t)
  \/ \E t \in Tasks : SendCreateMessage(t)
  \/ \E t \in Tasks : SendSaveConversation(t)
  \/ \E t \in Tasks : SendSaveMessage(t)

SpecMultiSession == Init /\ [][NextMultiSession]_vars

\* one session per user, u1 sending to u2, and every operation that writes a
\* message status, from either user
Pair == {"u1", "u2"}

NextStatus ==
  \/ \E s \in OneSessionEach : Connect(s)
  \/ \E s \in OneSessionEach : ConnectResume(s)
  \/ \E s \in OneSessionEach : Disconnect(s)
  \/ \E s \in OneSessionEach : DisconnectResume(s)
  \/ SendMessage("s1", "u2", "text", "hi", 0)
  \/ \E t \in Tasks : SendCreateConversation(t)
  \/ \E t \in Tasks : SendCreateMessage(t)
  \/ \E t \in Tasks : SendSaveConversation(t)
  \/ \E t \in Tasks : SendSaveMessage(t)
  \/ \E s \in OneSessionEach, m \in 0..MaxMessages : MessageDelivered(s, m)
  \/ \E s \in OneSessionEach, m \in 0..MaxMessages, c \in 0..MaxConversations :
        MessageRead(s, m, c)
  \/ \E t \in Tasks : MessageReadNotify(t)
  \/ \E u \in Pair, c \in 1..MaxConversations : GetMessages(u, c)
  \/ \E u \in Pair, c \in 1..MaxConversations : MarkMessagesAsRead(u, c)
  \/ \E t \in Tasks : MarkMessagesAsReadSave(t)

SpecStatus == Init /\ [][NextStatus]_vars

\* one session per user, send_message with every shape of payload
NextValidation ==
  \/ \E s \in OneSessionEach : Connect(s)
  \/ \E s \in OneSessionEach : ConnectResume(s)
  \/ \E s \in OneSessionEach : Disconnect(s)
  \/ \E s \in OneSessionEach : DisconnectResume(s)
  \/ \E s \in OneSessionEach, r \in Pair \cup {None}, ty \in TypeInputs,
        co \in ContentInputs :
        SendMessage(s, r, ty, co, 0)
  \/ \E t \in Tasks : SendCreateConversation(t)
  \/ \E t \in Tasks : SendCreateMessage(t)
  \/ \E t \in Tasks : SendSaveConversation(t)
  \/ \E t \in Tasks : SendSaveMessage(t)

SpecValidation == Init /\ [][NextValidation]_vars

\* one session per user, u1 sending to u2 and to u3 with and without a
\* conversationId, and the two ways of marking a conversation read
NextMarkRead ==
  \/ \E s \in OneSessionEach : Connect(s)
  \/ \E s \in OneSessionEach : ConnectResume(s)
  \/ \E s \in OneSessionEach : Disconnect(s)
  \/ \E s \in OneSessionEach : DisconnectResume(s)
  \/ \E r \in {"u2", "u3"}, c \in 0..MaxConversations :
        SendMessage("s1", r, "text", "hi", c)
  \/ \E t \in Tasks : SendCreateConversation(t)
  \/ \E t \in Tasks : SendCreateMessage(t)
  \/ \E t \in Tasks : SendSaveConversation(t)
  \/ \E t \in Tasks : SendSaveMessage(t)
  \/ \E s \in OneSessionEach, c \in 1..MaxConversations : MessageRead(s, 0, c)
  \/ \E t \in Tasks : MessageReadNotify(t)
  \/ \E u \in Users, c \in 1..MaxConversations : MarkMessagesAsRead(u, c)
  \/ \E t \in Tasks : MarkMessagesAsReadSave(t)

SpecMarkRead == Init /\ [][NextMarkRead]_vars

\* connections whose presence writes may be rejected by the store
NextFailure ==
  \/ \E s \in Sockets : Connect(s)
  \/ \E s \in Sockets : ConnectResume(s)
  \/ \E s \in Sockets : ConnectResumeFails(s)
  \/ \E s \in Sockets : Disconnect(s)
  \/ \E s \in Sockets : DisconnectResume(s)
  \/ \E s \in Sockets : DisconnectResumeFails(s)
  \/ ServerExit

SpecFailure == Init /\ [][NextFailure]_vars

\* handshakes with every kind of token, and u2 sending to u1
NextAuth ==
  \/ \E s \in Sockets, token \in TokenInputs : Handshake(s, token)
  \/ \E s \in Sockets : ConnectResume(s)
  \/ \E s \in Sockets : Disconnect(s)
  \/ \E s \in Sockets : DisconnectResume(s)
  \/ SendMessage("s3", "u1", "text", "hi", 0)
  \/ \E t \in Tasks : SendCreateConversation(t)
  \/ \E t \in Tasks : SendCreateMessage(t)
  \/ \E t \in Tasks : SendSaveConversation(t)
  \/ \E t \in Tasks : SendSaveMessage(t)

SpecAuth == Init /\ [][NextAuth]_vars

\* one session per user, u1 sending to u2, the saves of send_message may be
\* rejected by the store
NextSendFailure ==
  \/ \E s \in OneSessionEach : Connect(s)
  \/ \E s \in OneSessionEach : ConnectResume(s)
  \/ \E s \in OneSessionEach : Disconnect(s)
  \/ \E s \in OneSessionEach : DisconnectResume(s)
  \/ \E ty \in TypeInputs : SendMessage("s1", "u2", ty, "hi", 0)
  \/ \E t \in Tasks : SendCreateConversation(t)
  \/ \E t \in Tasks : SendCreateMessage(t)
  \/ \E t \in Tasks : SendSaveConversation(t)
  \/ \E t \in Tasks : SendSaveConversationFails(t)
  \/ \E t \in Tasks : SendSaveMessage(t)
  \/ \E t \in Tasks : SendSaveMessageFails(t)

SpecSendFailure == Init /\ [][NextSendFailure]_vars

\* chat requests between u1 and u2 in both directions, their acceptance and
\* rejection, and u1 (one session) sending a message to u2; u2 has no session,
\* so send_message never reaches its message.save()
NextRequests ==
  \/ Connect("s1")
  \/ ConnectResume("s1")
  \/ Disconnect("s1")
  \/ DisconnectResume("s1")
  \/ SendMessage("s1", "u2", "text", "hi", 0)
  \/ \E t \in Tasks : SendCreateConversation(t)
  \/ \E t \in Tasks : SendCreateMessage(t)
  \/ \E t \in Tasks : SendSaveConversation(t)
  \/ \E u \in Pair, v \in Pair : SendChatRequest(u, v)
  \/ \E t \in Tasks : SendChatRequestCreate(t)
  \/ \E t \in Tasks : SendChatRequestResave(t)
  \/ \E u \in Pair, r \in 1..MaxRequests : AcceptRequest(u, r)
  \/ \E t \in Tasks : AcceptRequestSave(t)
  \/ \E t \in Tasks : AcceptRequestCreate(t)
  \/ \E u \in Pair, r \in 1..MaxRequests : RejectRequest(u, r)
  \/ \E t \in Tasks : RejectRequestSave(t)

SpecRequests == Init /\ [][NextRequests]_vars

\* every socket connects and disconnects and sends typing indicators
NextTyping ==
  \/ \E s \in Sockets : Connect(s)
  \/ \E s \in Sockets : ConnectResume(s)
  \/ \E s \in Sockets : Disconnect(s)
  \/ \E s \in Sockets : DisconnectResume(s)
  \/ \E s \in Sockets, r \in Users \cup {None}, c \in 0..1 : Typing(s, r, c)
  \/ \E s \in Sockets, r \in Users \cup {None}, c \in 0..1 : StopTyping(s, r, c)

SpecTyping == Init /\ [][NextTyping]_vars

\* one session per user, u1 sending to u2, u2 acknowledging and reading, and
\* both users asking for messages to be deleted
NextDelete ==
  \/ \E s \in OneSessionEach : Connect(s)
  \/ \E s \in OneSessionEach : ConnectResume(s)
  \/ \E s \in OneSessionEach : Disconnect(s)
  \/ \E s \in OneSessionEach : DisconnectResume(s)
  \/ SendMessage("s1", "u2", "text", "hi", 0)
  \/ \E t \in Tasks : SendCreateConversation(t)
  \/ \E t \in Tasks : SendCreateMessage(t)
  \/ \E t \in Tasks : SendSaveConversation(t)
  \/ \E t \in Tasks : SendSaveMessage(t)
  \/ \E m \in 1..MaxMessages : MessageRead("s3", m, 0)
  \/ \E u \in Pair, m \in 1..MaxMessages : DeleteMessage(u, m)
  \/ \E t \in Tasks : DeleteMessageSave(t)

SpecDelete == Init /\ [][NextDelete]_vars

\* u1 (one session) sending to u2, who has no session, while both users ask
\* for the conversation to be deleted; a save of a deleted document either
\* matches nothing or rejects
NextDeleteConversation ==
  \/ Connect("s1")
  \/ ConnectResume("s1")
  \/ Disconnect("s1")
  \/ DisconnectResume("s1")
  \/ SendMessage("s1", "u2", "text", "hi", 0)
  \/ \E t \in Tasks : SendCreateConversation(t)
  \/ \E t \in Tasks : SendCreateMessage(t)
  \/ \E t \in Tasks : SendSaveConversation(t)
  \/ \E t \in Tasks : SendSaveConversationFails(t)
  \/ \E u \in Pair, c \in 1..MaxConversations : DeleteConversation(u, c)
  \/ \E t \in Tasks : DeleteConversationMessages(t)
  \/ \E t \in Tasks : DeleteConversationDocument(t)

SpecDeleteConversation == Init /\ [][NextDeleteConversation]_vars

\* ------------------------------------------------------------ properties
\* the sockets of a user whose transport is open
LiveSockets(u) == {s \in Sockets : SocketUser(s) = u /\ sockets[s].connected}
\* the sockets of a user that are open and have their listeners attached
ReadySockets(u) == {s \in Sockets : SocketUser(s) = u /\ Ready(s)}

ParticipantSet(c) ==
  {conversations[c].participants[1], conversations[c].participants[2]}

StatusRank(status) == CASE status = "sent" -> 1
                        [] status = "delivered" -> 2
                        [] status = "read" -> 3

\* C1: there is never more than one Conversation for an unordered pair of
\* users, however the find-then-create steps of send_message handlers interleave.
C1_OneConversationPerPair ==
  \A a \in ConversationIds, b \in ConversationIds :
    ParticipantSet(a) = ParticipantSet(b) => a = b

\* C2: no step moves the persisted status of a message backward in the order
\* sent < delivered < read.
C2_StatusNeverMovesBackward ==
  [][\A m \in MessageIds :
       StatusRank(messages'[m].status) >= StatusRank(messages[m].status)]_vars

\* C3: when send_message looks the receiver up and the receiver has no live
\* session, the handler pushes no receive_message, writes no delivered status
\* and ends with message_sent carrying status sent.
C3_OfflineReceiverStaysSent ==
  [][\A t \in Tasks :
       (SendSaveConversation(t) /\ LiveSockets(tasks[t].receiverId) = {})
         => /\ tasks'[t] = NoTask
            /\ \A e \in emits' : e.ev = "message_sent" /\ e.status = "sent"]_vars

\* C4: when the receiver has two live sockets with their listeners attached,
\* the receive_message of a send_message reaches both of them.
C4_BothSessionsReceive ==
  [][\A t \in Tasks :
       (SendSaveConversation(t) /\ Cardinality(ReadySockets(tasks[t].receiverId)) >= 2)
         => \E e \in emits' :
              /\ e.ev = "receive_message"
              /\ ReadySockets(tasks[t].receiverId) \subseteq e.to]_vars

\* C5: no user_online is broadcast for a session that connects while another
\* session of the user is already online, and no user_offline is broadcast
\* while another session of the user is still live.
C5_PresenceOncePerTransition ==
  [][\A s \in Sockets :
       /\ (ConnectResume(s) /\ ReadySockets(SocketUser(s)) \ {s} # {})
            => \A e \in emits' : e.ev # "user_online"
       /\ (DisconnectResume(s) /\ LiveSockets(SocketUser(s)) \ {s} # {})
            => \A e \in emits' : e.ev # "user_offline"]_vars

\* C6: a user with a live socket has a registry entry that names a live socket
\* of that user.
C6_RegistryNamesLiveSession ==
  \A u \in Users :
    LiveSockets(u) # {} => connectedUsers[u] \in LiveSockets(u)

\* C7: once a socket is disconnected and none of its handlers is still to run,
\* the registry does not map its user to it, and if the user has no session
\* left and no handler of any of the user's sockets is suspended, isOnline is
\* false.
HandlersFinished(s) ==
  ~sockets[s].connected /\ sockets[s].pc \in {"ready", "done"}

C7_DisconnectClearsRegistry ==
  \A s \in Sockets :
    HandlersFinished(s) =>
      /\ connectedUsers[SocketUser(s)] # s
      /\ (\A x \in Sockets : SocketUser(x) = SocketUser(s) =>
                               (sockets[x].pc = "idle" \/ HandlersFinished(x)))
           => ~isOnline[SocketUser(s)]

\* C8: a receive_message that reaches the receiver carries status delivered,
\* like the message_sent of the same send_message.
C8_ReceiveMessageIsDelivered ==
  \A e \in emits :
    (e.ev = "receive_message" /\ e.to # {}) => e.status = "delivered"

\* C9: a message_read {messageId} emitted by a session whose user is not the
\* receiver of the message leaves the message's status unchanged.
C9_OnlyReceiverMarksRead ==
  [][\A s \in Sockets, m \in MessageIds :
       (MessageRead(s, m, 0) /\ SocketUser(s) # messages[m].receiver)
         => messages'[m].status = messages[m].status]_vars

\* C10: the sender and the receiver of every persisted Message are the two
\* participants of its Conversation.
C10_MessageBetweenParticipants ==
  \A m \in MessageIds :
    {messages[m].sender, messages[m].receiver} =
      ParticipantSet(messages[m].conversationId)

\* C11: a send_message whose type is outside the enum creates no Conversation
\* (and no Message): its handler never runs Conversation.create.
C11_InvalidSendCreatesNothing ==
  [][\A t \in Tasks :
       (tasks[t].kind = "send" /\ tasks[t].type \notin MessageTypes)
         => /\ ~SendCreateConversation(t)
            /\ SendCreateMessage(t) => messages' = messages]_vars

\* C12: with no mark-read at all, once every send_message handler has
\* completed, the unread counter of each user in each conversation equals the
\* number of messages sent to that user in it.
SentTo(c, u) ==
  {m \in MessageIds : messages[m].conversationId = c /\ messages[m].receiver = u}

C12_UnreadCountsEverySend ==
  (\A t \in Tasks : tasks[t] = NoTask) =>
    \A c \in ConversationIds, u \in Users :
      conversations[c].unreadCount[u] = Cardinality(SentTo(c, u))

\* C13: when the socket message_read of a conversation has completed, the
\* caller's unread counter of that conversation is 0.
C13_MarkReadResetsUnread ==
  [][\A t \in Tasks :
       (MessageReadNotify(t) /\ tasks[t].conversation \in ConversationIds)
         => conversations'[tasks[t].conversation].unreadCount[tasks[t].userId] = 0]_vars

\* C14: marking conversation c read for user u sets status read on exactly the
\* messages of c whose receiver is u and whose status is sent or delivered, and
\* leaves every other message as it is (an HTTP PUT of a user who is no
\* participant of c is refused and changes nothing).
MarkedRead(c, u) ==
  [m \in 1..Len(messages) |->
     IF /\ m \in MessageIds
        /\ messages[m].conversationId = c
        /\ messages[m].receiver = u
        /\ messages[m].status \in {"sent", "delivered"}
       THEN [messages[m] EXCEPT !.status = "read"]
       ELSE messages[m]]

C14_MarkReadFrame ==
  [][/\ \A s \in Sockets, c \in 1..MaxConversations :
          MessageRead(s, 0, c) => messages' = MarkedRead(c, SocketUser(s))
     /\ \A u \in Users, c \in 1..MaxConversations :
          MarkMessagesAsRead(u, c) =>
            messages' = IF IsParticipant(u, c) THEN MarkedRead(c, u) ELSE messages]_vars

\* a mark-read of u2 is in flight that turned a message read while a message
\* of another conversation and a message to another receiver stay unread
C14_Witness ==
  \E t \in Tasks :
    /\ tasks[t].kind \in {"read", "markRead"}
    /\ tasks[t].userId = "u2"
    /\ \E m \in MessageIds :
         /\ messages[m].conversationId = tasks[t].conversation
         /\ messages[m].receiver = "u2"
         /\ messages[m].status = "read"
    /\ \E m \in MessageIds :
         /\ messages[m].status # "read"
         /\ \/ messages[m].conversationId # tasks[t].conversation
            \/ messages[m].receiver # "u2"

\* C15: a store failure while handling a connect or a disconnect is confined to
\* that event: the server stays as it was, the other sockets stay as they
\* were, a failed connect leaves its own connection open, and the process
\* never exits.
C15_FailureIsConfined ==
  [][/\ \A s \in Sockets :
          (ConnectResumeFails(s) \/ DisconnectResumeFails(s))
            => /\ server' = server
               /\ \A o \in Sockets \ {s} : sockets'[o] = sockets[o]
               /\ sockets'[s].connected = sockets[s].connected
     /\ server' # "exited"]_vars

\* C16: a handshake with no token, with a token whose signature is invalid or
\* expired, or with a token of a non-existent user is refused: the step writes
\* no registry entry and no isOnline, emits nothing and starts no handler; a
\* refused socket stays refused and closed, the registry never names it, no
\* event is emitted by it or to it, and no handler runs for it.
BadToken(token) ==
  \/ token = NoToken
  \/ token.sig \in {"invalid", "expired"}
  \/ token.id = "ghost"

C16_BadTokenRefused ==
  [][/\ \A s \in Sockets, token \in TokenInputs :
          (BadToken(token) /\ Handshake(s, token))
            => /\ sockets'[s] = [connected |-> FALSE, pc |-> "refused"]
               /\ connectedUsers' = connectedUsers
               /\ isOnline' = isOnline
               /\ emits' = {}
               /\ tasks' = tasks
     /\ \A s \in Sockets :
          sockets[s].pc = "refused"
            => /\ sockets'[s] = sockets[s]
               /\ \A u \in Users : connectedUsers'[u] # s
               /\ \A e \in emits' : s \notin e.to
               /\ \A t \in Tasks : tasks'[t].socket # s]_vars

\* a socket was refused while another session of the same user is online and
\* a message is being sent
C16_Witness ==
  /\ sockets["s1"].pc = "refused"
  /\ sockets["s2"].pc = "ready"
  /\ sockets["s3"].pc = "ready"
  /\ \E t \in Tasks : tasks[t].kind = "send"
  /\ Len(messages) > 0

\* C17: a send_message handler that persisted its Message ends by emitting
\* message_sent with that message and no message_error; message_error is
\* emitted only by a handler that persisted no Message.
C17_PersistedSendIsConfirmed ==
  [][\A t \in Tasks :
       (tasks[t].kind = "send" /\ tasks[t].message # 0 /\ tasks'[t] = NoTask)
         => /\ \E e \in emits' : /\ e.ev = "message_sent"
                                 /\ e.messageId = tasks[t].message
            /\ \A e \in emits' : e.ev # "message_error"]_vars

\* C18: when GET /api/messages/:conversationId changes the status of a message
\* whose sender has a live, registered session, the request pushes a
\* status-update event (message_status_updated or messages_read) to that
\* sender.
C18_HttpStatusChangePushed ==
  [][\A u \in Users, c \in 1..MaxConversations :
       GetMessages(u, c) =>
         \A m \in MessageIds :
           (/\ messages'[m].status # messages[m].status
            /\ connectedUsers[messages[m].sender] \in ReadySockets(messages[m].sender))
             => \E e \in emits' :
                  /\ e.ev \in {"message_status_updated", "messages_read"}
                  /\ connectedUsers[messages[m].sender] \in e.to]_vars

\* C19: there is at most one ChatRequest per unordered pair of users.
C19_OneRequestPerPair ==
  \A r1 \in RequestIds, r2 \in RequestIds :
    {chatRequests[r1].sender, chatRequests[r1].receiver}
      = {chatRequests[r2].sender, chatRequests[r2].receiver}
    => r1 = r2

\* C20: when acceptRequest has run to its end, exactly one Conversation exists
\* between the sender and the receiver of the request.
C20_AcceptLeavesOneConversation ==
  [][\A t \in Tasks :
       AcceptRequestCreate(t) =>
         Cardinality({c \in 1..Len(conversations') :
                        {conversations'[c].participants[1],
                         conversations'[c].participants[2]}
                          = {tasks[t].userId, tasks[t].receiverId}}) = 1]_vars

\* C21: a Message is persisted between two users only if an accepted
\* ChatRequest exists between them.
C21_MessageNeedsAcceptedRequest ==
  [][\A t \in Tasks :
       (SendCreateMessage(t) /\ Len(messages') > Len(messages))
         => \E r \in RequestIds :
              /\ chatRequests[r].status = "accepted"
              /\ {chatRequests[r].sender, chatRequests[r].receiver}
                   = {tasks[t].userId, tasks[t].receiverId}]_vars

\* C22: when a user's connection is established, every message stored for that
\* user with status sent, whose send_message handler has finished, is pushed
\* to the new session as receive_message.
C22_OfflineMessagesPushedOnConnect ==
  [][\A s \in Sockets :
       ConnectResume(s) =>
         \A m \in MessageIds :
           (/\ messages[m].receiver = SocketUser(s)
            /\ messages[m].status = "sent"
            /\ \A t \in Tasks : tasks[t].message # m)
             => \E e \in emits' : /\ e.ev = "receive_message"
                                  /\ e.messageId = m
                                  /\ s \in e.to]_vars

\* C23: every Conversation has exactly two participants and they are two
\* distinct users.
C23_TwoDistinctParticipants ==
  \A c \in ConversationIds :
    /\ Len(conversations[c].participants) = 2
    /\ conversations[c].participants[1] # conversations[c].participants[2]

\* what one typing indicator of socket s naming receiver r may do
TypingFrame(s, r, isTyping) ==
  /\ Cardinality(emits') <= 1
  /\ \A e \in emits' : /\ e.ev = "user_typing"
                       /\ e.isTyping = isTyping
                       /\ e.userId = SocketUser(s)
                       /\ \A x \in e.to : SocketUser(x) = r
  /\ (r \notin Users \/ connectedUsers[r] = None) => emits' = {}
  /\ connectedUsers' = connectedUsers
  /\ isOnline' = isOnline
  /\ conversations' = conversations
  /\ messages' = messages
  /\ chatRequests' = chatRequests

\* C24: a typing or stop_typing event of socket s naming receiver r emits at
\* most one event; it is a user_typing event carrying the user of s and
\* isTyping true for typing, false for stop_typing, it goes to sockets of r
\* only, and there is none when r has no registry entry; the registry and the
\* persisted state do not change.
C24_TypingOnlyToReceiver ==
  [][\A s \in Sockets, r \in Users \cup {None}, c \in 0..1 :
       /\ Typing(s, r, c) => TypingFrame(s, r, TRUE)
       /\ StopTyping(s, r, c) => TypingFrame(s, r, FALSE)]_vars

\* a stop_typing indicator of u1 has just reached u2's socket while u1 has
\* two sessions
C24_Witness ==
  /\ Ready("s1")
  /\ Ready("s2")
  /\ \E e \in emits : /\ e.ev = "user_typing"
                      /\ e.isTyping = FALSE
                      /\ e.userId = "u1"
                      /\ e.to = {"s3"}

\* C25: the save of a DELETE /api/messages/:messageId by the message's sender
\* sets isDeleted and deletedAt and replaces content with the deletion marker,
\* and leaves the message's createdAt, status, sender, receiver and
\* conversationId, and every other message, as they are; a DELETE by any other
\* user starts nothing and changes nothing, and no other step marks a message
\* deleted.
C25_SoftDeleteFrame ==
  [][/\ \A t \in Tasks :
          DeleteMessageSave(t) =>
            LET m == tasks[t].message
            IN  /\ tasks[t].userId = messages[m].sender
                /\ Len(messages') = Len(messages)
                /\ messages'[m].isDeleted
                /\ messages'[m].deletedAt # None
                /\ messages'[m].content = DeletionMarker
                /\ messages'[m].createdAt = messages[m].createdAt
                /\ messages'[m].status = messages[m].status
                /\ messages'[m].sender = messages[m].sender
                /\ messages'[m].receiver = messages[m].receiver
                /\ messages'[m].conversationId = messages[m].conversationId
                /\ messages'[m].type = messages[m].type
                /\ \A x \in MessageIds \ {m} : messages'[x] = messages[x]
     /\ \A u \in Users, m \in 1..MaxMessages :
          (DeleteMessage(u, m) /\ (m \notin MessageIds \/ messages[m].sender # u))
            => messages' = messages /\ tasks' = tasks
     /\ \A m \in MessageIds :
          (~messages[m].isDeleted /\ messages'[m].isDeleted)
            => \E t \in Tasks : DeleteMessageSave(t) /\ tasks[t].message = m]_vars

\* a message that was read has been deleted by its sender while another
\* message is not deleted
C25_Witness ==
  \E m \in MessageIds, x \in MessageIds :
    /\ messages[m].isDeleted
    /\ messages[m].status = "read"
    /\ messages[m].content = DeletionMarker
    /\ ~messages[x].isDeleted
    /\ messages[x].content = "hi"

\* C26: the write of status delivered that ends send_message takes effect
\* only if the persisted status is still sent: a message the receiver has
\* already marked read stays read.
C26_DeliveredWriteKeepsRead ==
  [][\A t \in Tasks :
       (SendSaveMessage(t) /\ messages[tasks[t].message].status = "read")
         => messages'[tasks[t].message].status = "read"]_vars

\* C27: once a conversation has been deleted, no Message exists whose
\* conversationId names it.
C27_DeleteCascades ==
  \A c \in 1..Len(conversations) :
    conversations[c].removed
      => \A m \in MessageIds : messages[m].conversationId # c

\* C28: the status of a ChatRequest changes only from pending to accepted,
\* from pending to rejected and from rejected to pending; an accepted request
\* keeps its status.
C28_RequestStatusTransitions ==
  [][\A r \in RequestIds :
       \/ chatRequests'[r].status = chatRequests[r].status
       \/ chatRequests[r].status = "pending" /\ chatRequests'[r].status = "accepted"
       \/ chatRequests[r].status = "pending" /\ chatRequests'[r].status = "rejected"
       \/ chatRequests[r].status = "rejected" /\ chatRequests'[r].status = "pending"]_vars

\* the messages of conversation c
MessagesOf(c) == {m \in MessageIds : messages[m].conversationId = c}

\* C29: whenever no send_message handler is in flight, the lastMessage of a
\* conversation that has messages is the message of it that was persisted
\* last.
C29_LastMessageIsLatest ==
  (\A t \in Tasks : tasks[t].kind # "send") =>
    \A c \in ConversationIds :
      MessagesOf(c) # {} =>
        /\ conversations[c].lastMessage \in MessagesOf(c)
        /\ \A m \in MessagesOf(c) : m <= conversations[c].lastMessage

\* C30: whenever no handler is in flight, a user's unread counter in a
\* conversation equals the number of the conversation's messages whose
\* receiver is that user and whose status is not read.
C30_UnreadCounterMatchesMessages ==
  (\A t \in Tasks : tasks[t] = NoTask) =>
    \A c \in ConversationIds, u \in Users :
      conversations[c].unreadCount[u]
        = Cardinality({m \in MessagesOf(c) : /\ messages[m].receiver = u
                                              /\ messages[m].status # "read"})
====
